---- MODULE Spec2Model ----
(***************************************************************************)
(* The conversation-log watcher of the Git Watcher desktop app (main.js,   *)
(* kept as src/unnamed/part_005): per-file tailing state, the change/add   *)
(* handlers of the directory watcher, processLine's session logic, the     *)
(* per-message-id debounce timers, the session start/end reports and the   *)
(* WebSocket client that runs the server's commands after a session ended. *)
(*                                                                         *)
(* Time is counted in ticks of 2 s, so the 10 s debounce is 5 ticks.       *)
(* A file's content is a sequence of characters: a line body is one        *)
(* character (the JSON text of a record, or text that is not JSON) and     *)
(* NL is the line terminator.                                              *)
(***************************************************************************)
EXTENDS Naturals, Sequences, FiniteSets, TLC

\* ---------------------------------------------------------------- bounds
MaxAppends == 3        \* lines the log writer appends over a run
MaxTruncates == 1      \* truncations of a log file over a run
MaxStarts == 1         \* start-watching commands over a run
MaxWatches == 2        \* the same, where watching is started again
MaxFrames == 2         \* frames the server sends over a run
MaxConns == 1          \* end reports the server answers with 200 over a run
MaxSockets == 2        \* the same, where the sockets are counted

\* ------------------------------------------------------ program constants
DebounceTicks == 5     \* setTimeout(..., 10_000), in ticks of 2 s
FakeUserThreshold == 2 \* newLinesCount > 2 skips a user message
ScanEvery == 3         \* changeCycleCounter % 3 === 0 scans for new files

Files == {"a.jsonl", "b.jsonl"}
NoFile == "null"       \* activeConversationFilePath = null
NoTimer == 0           \* pending.timer = null
NoCwd == "None"        \* lineData.cwd || 'None'
EmptyPrompt == "Empty Message, ignore"

\* ------------------------------------------------------------ log records
NL == [ch |-> "nl"]

\* The JSON text of one record: the fields processLine reads.  text is the
\* string processLine extracts from message.content ("" when there is none).
Rec(cwd, id, role, tool, text) ==
  [ch |-> "text", json |-> TRUE, cwd |-> cwd, id |-> id, role |-> role,
   toolUseResult |-> tool, text |-> text]

NotJson ==
  [ch |-> "text", json |-> FALSE, cwd |-> "", id |-> "", role |-> "",
   toolUseResult |-> FALSE, text |-> ""]

UserP      == Rec("/p", "", "user", FALSE, "fix bug")
UserQ      == Rec("/q", "", "user", FALSE, "add test")
ToolResult == Rec("/p", "", "user", TRUE, "tool output")
Hello      == Rec("", "m1", "assistant", FALSE, "Hello")
World      == Rec("", "m1", "assistant", FALSE, " world")
Done       == Rec("", "", "assistant", FALSE, "done")
ToolUse    == Rec("/p", "m1", "assistant", FALSE, "")

\* Every shape of record processLine distinguishes.
Cwds == {"", "/p", "/q"}
MsgIds == {"m1", "m2"}
Roles == {"user", "assistant", "system"}
Texts == {"", "Hello", " world", "done", "fix bug"}
AllRecords ==
  {Rec(c, i, r, t, x) : c \in Cwds, i \in MsgIds \cup {""}, r \in Roles,
                        t \in BOOLEAN, x \in Texts} \cup {NotJson}

\* What the log writer appends, per specification: a line body, or <<>> for
\* a blank line.
Bodies         == {<<UserP>>, <<Hello>>, <<Done>>}
TailBodies     == {<<UserP>>, <<>>}
BatchBodies    == {<<UserP>>, <<ToolResult>>, <<Done>>, <<NotJson>>}
DebounceBodies == {<<UserP>>, <<Hello>>, <<World>>}

\* ------------------------------------------------------------------ state
VARIABLES
  disk,                        \* [Files -> content], the log directory
  exists,                      \* the files present in the directory
  fileWatcher,                 \* TRUE when a chokidar watcher is running
  fileStates,                  \* path -> {lastSize, processedLineCount}
  polled,                      \* files chokidar polls for changes
  addPending,                  \* files whose 'add' event is not yet delivered
  changePending,               \* files whose 'change' event is not yet delivered
  changeCycleCounter,          \* kept modulo ScanEvery, the only way it is read
  sessionStarted,
  sessionId,                   \* 0 is the empty string
  currentCwd,
  activeConversationFilePath,
  pendingAssistantResponses,   \* messageId -> {timer, content, cwd, sourcePath, ..}
  timers,                      \* armed setTimeout timers {h, messageId, left}
  startInFlight,               \* POST /session/start requests awaiting an answer
  endInFlight,                 \* POST /session/end requests awaiting an answer
  authToken,                   \* the bearer token, or NoToken
  conns,                       \* the WebSockets made by startGitOperations
  children,                    \* the processes spawned for execute_command
  frames,                      \* bound counter
  pstep,                       \* the reporting/protocol handler that ran last
  nextSid,                     \* the id the session API hands out next
  appends, truncates, starts,  \* bound counters
  lineLog,                     \* history, per line of disk: where it came from
  cut,                         \* history: files truncated since watching started
  hist,                        \* history of the session (see HistInit)
  step                         \* the handler that ran last and what it did

progVars == <<fileWatcher, fileStates, changeCycleCounter, sessionStarted, sessionId,
              currentCwd, activeConversationFilePath, pendingAssistantResponses,
              timers, startInFlight, endInFlight>>
protoVars == <<authToken, conns, children, frames, pstep>>
envVars == <<disk, exists, polled, addPending, changePending, nextSid,
             appends, truncates, starts>>
vars == <<progVars, protoVars, envVars, lineLog, cut, hist, step>>

\* ---------------------------------------------------------------- helpers
Min(S) == CHOOSE x \in S : \A y \in S : x <= y

RECURSIVE SplitLines(_)
\* content.split(/\r?\n/)
SplitLines(content) ==
  IF content = <<>> THEN << <<>> >>
  ELSE LET rest == SplitLines(Tail(content)) IN
       IF Head(content) = NL
       THEN << <<>> >> \o rest
       ELSE << <<Head(content)>> \o Head(rest) >> \o Tail(rest)

getNormalizedLines(content) ==
  LET lines == SplitLines(content) IN
  IF Len(lines) > 0 /\ lines[Len(lines)] = <<>>
  THEN SubSeq(lines, 1, Len(lines) - 1)
  ELSE lines

\* Bytes of one character of a file.
ByteLen(c) ==
  IF c = NL THEN 1
  ELSE IF ~c.json THEN 1
  ELSE IF c.text = "" THEN 2 ELSE 3

RECURSIVE StatSize(_)
\* fs.statSync(path).size
StatSize(content) ==
  IF content = <<>> THEN 0 ELSE ByteLen(Head(content)) + StatSize(Tail(content))

\* JSON.parse(line) succeeds
ParsesAsJson(line) == Len(line) = 1 /\ line[1].json

\* ------------------------------------------------------------ session logic
\* The module-level session state of main.js as one record, so that the
\* handlers can be written as functions of it.  calls lists the
\* SessionReporter calls the running handler has made so far, logs the kinds
\* of message it has sent to the renderer, order the indices of the lines it
\* has passed to processLine.
Cur ==
  [sessionStarted |-> sessionStarted, sessionId |-> sessionId,
   currentCwd |-> currentCwd, active |-> activeConversationFilePath,
   pending |-> pendingAssistantResponses, timers |-> timers,
   startInFlight |-> startInFlight, endInFlight |-> endInFlight,
   hist |-> hist, calls |-> <<>>, logs |-> {}, order |-> <<>>]

\* History of the session, kept for the properties only:
\*   open    start calls made since the session flag was last cleared
\*   cwd     the cwd declared by the user record that opened the session
\*   file    the file that record came from
\*   chunks  the assistant chunks with a message id accepted since then,
\*           each with the ticks passed since the chunk before it
\*   age     ticks since the last such chunk (capped)
\*   refused a user record that could open a session was processed while
\*           the session was on
\*   flying  one entry per start request awaiting its answer, oldest first:
\*           TRUE while the session flag its call set has not been cleared
\*   ends    end calls made since the last start call (capped at 2)
HistInit ==
  [open |-> 0, cwd |-> "", file |-> NoFile, chunks |-> <<>>, age |-> 0,
   refused |-> FALSE, flying |-> <<>>, ends |-> 0]

RemoveAt(seq, i) == SubSeq(seq, 1, i - 1) \o SubSeq(seq, i + 1, Len(seq))

\* sendToRenderer('log' | 'error', ...), by kind of message
sendToRenderer(s, kind) == [s EXCEPT !.logs = @ \cup {kind}]

AgeCap == DebounceTicks + 1
Capped(n) == IF n > AgeCap THEN AgeCap ELSE n

\* sessionStarted = false
ClearSessionFlag(s) ==
  [s EXCEPT !.sessionStarted = FALSE, !.hist.open = 0,
            !.hist.flying = [i \in DOMAIN @ |-> FALSE]]

\* sendStartConvo up to its await: the request is posted
sendStartConvo(s, prompt, cwd, src) ==
  [s EXCEPT !.startInFlight = @ + 1,
            !.calls = Append(@, [op |-> "start", prompt |-> prompt, cwd |-> cwd]),
            !.hist = [open |-> @.open + 1, cwd |-> cwd, file |-> src,
                      chunks |-> <<>>, age |-> 0, refused |-> FALSE,
                      flying |-> Append(@.flying, TRUE), ends |-> 0]]

\* sendEndConvo up to its await: the request is posted.  by says what made
\* the call: a debounce "timer" or a "line" without message id.
sendEndConvo(s, sid, finalOut, cwd, by) ==
  [s EXCEPT !.calls = Append(@, [op |-> "end", sid |-> sid, text |-> finalOut,
                                 cwd |-> cwd, by |-> by, hist |-> s.hist]),
            !.endInFlight = Append(@, [sessionId |-> sid, cwd |-> cwd]),
            !.hist.ends = Min({2, @ + 1})]

FreeHandle(s) == Min((1..(Cardinality(s.timers) + 1)) \ {t.h : t \in s.timers})

\* clearTimeout(h)
clearTimeout(s, h) == [s EXCEPT !.timers = {t \in @ : t.h # h}]

scheduleAssistantFinalize(s, messageId) ==
  IF messageId \notin DOMAIN s.pending THEN s
  ELSE LET s1 == IF s.pending[messageId].timer # NoTimer
                 THEN clearTimeout(s, s.pending[messageId].timer) ELSE s
           h == FreeHandle(s1)
       IN [s1 EXCEPT !.timers = @ \cup {[h |-> h, messageId |-> messageId,
                                         left |-> DebounceTicks]},
                     !.pending[messageId].timer = h]

\* finalizeAssistant that leaves the session as it is
finalizeAssistant_KeepsSession(s, messageId) ==
  IF messageId \notin DOMAIN s.pending THEN s
  ELSE LET pending == s.pending[messageId]
           s1 == IF pending.timer # NoTimer THEN clearTimeout(s, pending.timer) ELSE s
           s2 == IF pending.content # ""
                 THEN sendEndConvo(s1, s1.sessionId, pending.content, s1.currentCwd, "timer")
                 ELSE s1
       IN [s2 EXCEPT !.pending = [m \in DOMAIN @ \ {messageId} |-> @[m]]]

finalizeAssistant(s, messageId) ==
  IF messageId \notin DOMAIN s.pending THEN s
  ELSE LET pending == s.pending[messageId]
           s1 == IF pending.timer # NoTimer THEN clearTimeout(s, pending.timer) ELSE s
           s2 == IF pending.content # ""
                 THEN sendEndConvo(s1, s1.sessionId, pending.content, s1.currentCwd, "timer")
                 ELSE s1
           s3 == [s2 EXCEPT !.pending = [m \in DOMAIN @ \ {messageId} |-> @[m]],
                            !.active = NoFile]
       IN ClearSessionFlag(s3)

\* StartBranch without the toolUseResult test
StartBranch_NoToolCheck(s, d, cwd, sourcePath, newLinesCount) ==
  IF newLinesCount > FakeUserThreshold THEN sendToRenderer(s, "fake-user")
  ELSE LET prompt == IF d.text # "" THEN d.text ELSE EmptyPrompt
           s1 == [s EXCEPT !.sessionStarted = TRUE, !.active = sourcePath]
       IN sendStartConvo(s1, prompt, cwd, sourcePath)

\* StartBranch without the test of the number of new lines
StartBranch_NoBatchCheck(s, d, cwd, sourcePath, newLinesCount) ==
  IF d.toolUseResult THEN s
  ELSE LET prompt == IF d.text # "" THEN d.text ELSE EmptyPrompt
           s1 == [s EXCEPT !.sessionStarted = TRUE, !.active = sourcePath]
       IN sendStartConvo(s1, prompt, cwd, sourcePath)

\* The user branch of processLine, once role is "user" and no session is on.
StartBranch(s, d, cwd, sourcePath, newLinesCount) ==
  IF d.toolUseResult THEN s
  ELSE IF newLinesCount > FakeUserThreshold THEN sendToRenderer(s, "fake-user")
  ELSE LET prompt == IF d.text # "" THEN d.text ELSE EmptyPrompt
           s1 == [s EXCEPT !.sessionStarted = TRUE, !.active = sourcePath]
       IN sendStartConvo(s1, prompt, cwd, sourcePath)

\* AssistantBranch that debounces a reply without message id like any other
AssistantBranch_DebouncesAll(s, d, messageId, sourcePath) ==
  LET messageText == d.text
      key == IF messageId = "" THEN "m1" ELSE messageId IN
  IF messageText = "" THEN s
  ELSE LET s1 == IF key \notin DOMAIN s.pending
                 THEN [s EXCEPT !.pending =
                         [m \in DOMAIN @ \cup {key} |->
                            IF m = key
                            THEN [timer |-> NoTimer, content |-> messageText,
                                  cwd |-> s.currentCwd, sourcePath |-> sourcePath,
                                  inSession |-> s.sessionStarted]
                            ELSE @[m]]]
                 ELSE s
       IN scheduleAssistantFinalize(s1, key)

\* The assistant branch of processLine.  inSession of a pending response is
\* history: a session was on when the entry was made.
AssistantBranch(s, d, messageId, sourcePath) ==
  LET messageText == d.text IN
  IF messageId = ""
  THEN IF messageText # ""
       THEN ClearSessionFlag(
              [sendEndConvo(s, s.sessionId, messageText, s.currentCwd, "line")
                 EXCEPT !.active = NoFile])
       ELSE s
  ELSE IF messageText = "" THEN s
  ELSE LET s1 == IF messageId \notin DOMAIN s.pending
                 THEN [s EXCEPT !.pending =
                         [m \in DOMAIN @ \cup {messageId} |->
                            IF m = messageId
                            THEN [timer |-> NoTimer, content |-> messageText,
                                  cwd |-> s.currentCwd, sourcePath |-> sourcePath,
                                  inSession |-> s.sessionStarted]
                            ELSE @[m]]]
                 ELSE s
           s2 == [s1 EXCEPT !.hist.chunks =
                    Append(@, [id |-> messageId, text |-> messageText,
                               gap |-> s.hist.age]),
                            !.hist.age = 0]
       IN scheduleAssistantFinalize(s2, messageId)

\* StartsSession without the test of the session flag
StartsSession_AnyTime(s, d) == d.role = "user"

\* the condition of the user branch of processLine
StartsSession(s, d) == d.role = "user" /\ ~s.sessionStarted

processLine(s, line, sourcePath, newLinesCount) ==
  IF ~ParsesAsJson(line) THEN sendToRenderer(s, "line-error")
  ELSE LET d == line[1]
           cwd == IF d.cwd # "" THEN d.cwd ELSE NoCwd
           messageId == d.id
           s1 == [s EXCEPT !.currentCwd = cwd]
           s2 == IF messageId # "" /\ messageId \in DOMAIN s1.pending
                 THEN sendToRenderer(
                        [s1 EXCEPT !.pending = [m \in DOMAIN @ \ {messageId} |-> @[m]]],
                        "removed-pending")
                 ELSE s1
           s3 == IF d.role = "user" /\ ~d.toolUseResult /\ s2.sessionStarted
                    /\ sourcePath = s2.active
                 THEN [s2 EXCEPT !.hist.refused = TRUE] ELSE s2
       IN IF s2.sessionStarted /\ s2.active # NoFile /\ sourcePath # s2.active
          THEN s3
          ELSE IF StartsSession(s3, d)
          THEN StartBranch(s3, d, cwd, sourcePath, newLinesCount)
          ELSE IF d.role = "assistant"
          THEN AssistantBranch(s3, d, messageId, sourcePath)
          ELSE s3

\* ------------------------------------------------------- history of lines
\* One tag per line of a file:
\*   org       "pre": present when watching started, "new": appended to a
\*             file of the registry while it was watched, "unseen": appended
\*             otherwise (the watcher stopped, or the file not yet registered)
\*   during    appended while a session was active on another file
\*   handed    how often the line was passed to processLine (capped at 2)
\*   frozen    present in the file when a read detected a rotation
\*   replayed  passed to processLine while frozen
\*   late      passed to processLine after a later line of the file
LineTag(org, during) ==
  [org |-> org, during |-> during, handed |-> 0, frozen |-> FALSE, replayed |-> FALSE,
   late |-> FALSE]

\* The tags after lines from+1 .. Len(allLines) went through the change loop.
TagsAfterBatch(tags, allLines, from) ==
  [i \in 1..Len(tags) |->
     IF i > from /\ i <= Len(allLines) /\ allLines[i] # <<>>
     THEN [tags[i] EXCEPT !.handed = IF @ < 2 THEN @ + 1 ELSE @,
                          !.replayed = tags[i].frozen,
                          !.late = \E j \in DOMAIN tags : j > i /\ tags[j].handed > 0]
     ELSE tags[i]]

TagsAfterRotation(tags) == [i \in 1..Len(tags) |-> [tags[i] EXCEPT !.frozen = TRUE]]

\* What the handler that ran last did: the handler and its file, the lines
\* the file had when it was read (total) and the new lines among them
\* (batch), whether the read found the file smaller than the registry knew
\* it (shrunk), whether the session was idle before, the SessionReporter
\* calls made and the kinds of message sent to the renderer, the indices of
\* the lines passed to processLine in the order of the calls (order), the
\* files a scan added to the registry (discovered), and for a timer whether
\* no pending response held it any more when it fired (orphan), and for the
\* answer to a start request whether the session flag that its call set had
\* been cleared since (late).
Step(kind, file, s) ==
  [kind |-> kind, file |-> file, total |-> 0, batch |-> 0, shrunk |-> FALSE,
   idleBefore |-> ~sessionStarted, calls |-> s.calls, logs |-> s.logs,
   order |-> s.order, discovered |-> {}, orphan |-> FALSE, late |-> FALSE]

\* Write a session record back to the module-level variables.
Commit(s) ==
  /\ sessionStarted' = s.sessionStarted
  /\ sessionId' = s.sessionId
  /\ currentCwd' = s.currentCwd
  /\ activeConversationFilePath' = s.active
  /\ pendingAssistantResponses' = s.pending
  /\ timers' = s.timers
  /\ startInFlight' = s.startInFlight
  /\ endInFlight' = s.endInFlight
  /\ hist' = s.hist

sessionVars == <<sessionStarted, sessionId, currentCwd, activeConversationFilePath,
                 pendingAssistantResponses, timers, startInFlight, endInFlight, hist>>

\* ---------------------------------------------------------- file registry
\* Entry that counts nothing of the content as processed
Entry_FromZero(content) == [lastSize |-> 0, processedLineCount |-> 0]

Entry(content) ==
  [lastSize |-> StatSize(content),
   processedLineCount |-> Len(getNormalizedLines(content))]

SetEntry(states, path, e) ==
  [f \in DOMAIN states \cup {path} |-> IF f = path THEN e ELSE states[f]]

\* scanForNewFiles: registers the files of the folder not yet in fileStates
scanForNewFiles(states) ==
  [f \in DOMAIN states \cup exists |->
     IF f \in DOMAIN states THEN states[f] ELSE Entry(disk[f])]

\* ScanDue that holds at every change event
ScanDue_Always(counter) == TRUE

\* changeCycleCounter % 3 === 0
ScanDue(counter) == counter % ScanEvery = 0

\* IgnoresChange without the filter
IgnoresChange_Never(changedPath) == FALSE

\* the active-file filter of the 'change' handler
IgnoresChange(changedPath) ==
  /\ sessionStarted
  /\ activeConversationFilePath # NoFile
  /\ changedPath # activeConversationFilePath

\* the truncation/rotation test of the 'change' handler
IsRotation(prev, size, allLines) ==
  Len(allLines) < prev.processedLineCount \/ size < prev.lastSize

\* RotationEntry that starts over at the first line of the file
RotationEntry_Rewind(size, allLines) == [lastSize |-> size, processedLineCount |-> 0]

\* the entry the 'change' handler stores on a rotation
RotationEntry(size, allLines) ==
  [lastSize |-> size, processedLineCount |-> Len(allLines)]

\* ProcessBatch that gives up the batch at a line that is not JSON
RECURSIVE ProcessBatch_StopsAtError(_, _, _, _, _)
ProcessBatch_StopsAtError(s, allLines, i, changedPath, newLinesCount) ==
  IF i > Len(allLines) THEN s
  ELSE LET line == allLines[i]
           s1 == IF line # <<>>
                 THEN [processLine(s, line, changedPath, newLinesCount)
                         EXCEPT !.order = Append(@, i)]
                 ELSE s
       IN IF line # <<>> /\ ~ParsesAsJson(line) THEN s1
          ELSE ProcessBatch_StopsAtError(s1, allLines, i + 1, changedPath, newLinesCount)

\* ProcessBatch that takes the new lines last to first
RECURSIVE ProcessBatch_Backwards(_, _, _, _, _)
ProcessBatch_Backwards(s, allLines, i, changedPath, newLinesCount) ==
  IF i > Len(allLines) THEN s
  ELSE LET last == Len(allLines)
           s1 == IF allLines[last] # <<>>
                 THEN [processLine(s, allLines[last], changedPath, newLinesCount)
                         EXCEPT !.order = Append(@, last)]
                 ELSE s
       IN ProcessBatch_Backwards(s1, SubSeq(allLines, 1, last - 1), i, changedPath,
                                 newLinesCount)

\* the for loop of the 'change' handler over the new lines
RECURSIVE ProcessBatch(_, _, _, _, _)
ProcessBatch(s, allLines, i, changedPath, newLinesCount) ==
  IF i > Len(allLines) THEN s
  ELSE LET line == allLines[i]
           s1 == IF line # <<>>
                 THEN [processLine(s, line, changedPath, newLinesCount)
                         EXCEPT !.order = Append(@, i)]
                 ELSE s
       IN ProcessBatch(s1, allLines, i + 1, changedPath, newLinesCount)

\* fileWatcher.on('change')
OnChange(changedPath) ==
  /\ fileWatcher
  /\ changedPath \in changePending
  /\ changePending' = changePending \ {changedPath}
  /\ changeCycleCounter' = (changeCycleCounter + 1) % ScanEvery
  /\ UNCHANGED <<fileWatcher, disk, exists, polled, addPending, nextSid,
                 appends, truncates, starts, cut, protoVars>>
  /\ LET scanDue == ScanDue(changeCycleCounter')
         Scanned(states) == IF scanDue THEN scanForNewFiles(states) ELSE states
         Found(states) == DOMAIN Scanned(states) \ DOMAIN states
         prev == IF changedPath \in DOMAIN fileStates THEN fileStates[changedPath]
                 ELSE [lastSize |-> 0, processedLineCount |-> 0]
         size == StatSize(disk[changedPath])
         allLines == getNormalizedLines(disk[changedPath])
         newLinesCount == Len(allLines) - prev.processedLineCount
         shrunk == size < prev.lastSize \/ Len(allLines) < prev.processedLineCount
     IN
     IF IgnoresChange(changedPath)
     THEN /\ fileStates' = Scanned(fileStates)
          /\ UNCHANGED <<sessionVars, lineLog>>
          /\ step' = [Step("change", changedPath, sendToRenderer(Cur, "ignoring-change"))
                        EXCEPT !.discovered = Found(fileStates)]
     ELSE IF size = prev.lastSize
     THEN /\ fileStates' = Scanned(fileStates)
          /\ UNCHANGED <<sessionVars, lineLog>>
          /\ step' = [Step("change", changedPath, Cur)
                        EXCEPT !.discovered = Found(fileStates)]
     ELSE IF IsRotation(prev, size, allLines)
     THEN /\ fileStates' = SetEntry(fileStates, changedPath, RotationEntry(size, allLines))
          /\ UNCHANGED sessionVars
          /\ lineLog' = [lineLog EXCEPT ![changedPath] = TagsAfterRotation(@)]
          /\ step' = [Step("change", changedPath, sendToRenderer(Cur, "rotation"))
                        EXCEPT !.total = Len(allLines), !.shrunk = shrunk]
     ELSE LET s == ProcessBatch(Cur, allLines, prev.processedLineCount + 1,
                                changedPath, newLinesCount)
          IN /\ fileStates' = Scanned(SetEntry(fileStates, changedPath,
                                 [lastSize |-> size,
                                  processedLineCount |-> Len(allLines)]))
             /\ Commit(s)
             /\ lineLog' = [lineLog EXCEPT ![changedPath] =
                              TagsAfterBatch(@, allLines, prev.processedLineCount)]
             /\ step' = [Step("change", changedPath,
                              IF newLinesCount > 0 THEN sendToRenderer(s, "processed")
                              ELSE s)
                           EXCEPT !.total = Len(allLines), !.batch = newLinesCount,
                                  !.shrunk = shrunk,
                                  !.discovered =
                                     Found(SetEntry(fileStates, changedPath, prev))]

\* fileWatcher.on('add')
OnAdd(addedPath) ==
  /\ fileWatcher
  /\ addedPath \in addPending
  /\ addPending' = addPending \ {addedPath}
  /\ polled' = polled \cup {addedPath}
  /\ fileStates' = SetEntry(fileStates, addedPath, Entry(disk[addedPath]))
  /\ step' = Step("add", addedPath, sendToRenderer(Cur, "new-file"))
  /\ UNCHANGED <<fileWatcher, changeCycleCounter, sessionVars, disk, exists,
                 changePending, nextSid, appends, truncates, starts, lineLog, cut,
                 protoVars>>

\* ------------------------------------------------------------ start / stop
RECURSIVE updateCWDThrows(_, _)
\* updateCWD(selectedFile) throws: JSON.parse of the first line of a .jsonl
\* file fails before a file with a cwd is found.  order is readdirSync's.
updateCWDThrows(order, d) ==
  IF order = <<>> THEN FALSE
  ELSE LET firstLine == SplitLines(d[Head(order)])[1] IN
       IF ~ParsesAsJson(firstLine) THEN TRUE
       ELSE IF firstLine[1].cwd # "" THEN FALSE
       ELSE updateCWDThrows(Tail(order), d)

\* The orders in which readdirSync may list the files of the folder.
DirOrders ==
  {o \in [1..Cardinality(exists) -> exists] :
     \A i, j \in DOMAIN o : i # j => o[i] # o[j]}

\* ipcMain.handle('start-watching'), at most max times over a run
StartWatchingWithin(max) ==
  /\ starts < max
  /\ starts' = starts + 1
  /\ UNCHANGED protoVars
  /\ \E order \in DirOrders :
       IF updateCWDThrows(order, disk)
       THEN /\ step' = Step("start-watching", NoFile, sendToRenderer(Cur, "error"))
            /\ UNCHANGED <<progVars, disk, exists, polled, addPending, changePending,
                           nextSid, appends, truncates, lineLog, cut, hist>>
       ELSE /\ fileWatcher' = TRUE
            /\ fileStates' = [f \in exists |-> Entry(disk[f])]
            /\ polled' = exists
            /\ addPending' = {}
            /\ changePending' = {}
            /\ lineLog' = [f \in Files |->
                             [i \in 1..Len(lineLog[f]) |-> LineTag("pre", FALSE)]]
            /\ cut' = {}
            /\ step' = Step("start-watching", NoFile, sendToRenderer(Cur, "Started"))
            /\ UNCHANGED <<changeCycleCounter, sessionVars, disk, exists, nextSid,
                           appends, truncates>>

StartWatching == StartWatchingWithin(MaxStarts)

\* ipcMain.handle('stop-watching')
StopWatching ==
  /\ fileWatcher' = FALSE
  /\ polled' = {}
  /\ addPending' = {}
  /\ changePending' = {}
  /\ Commit([ClearSessionFlag(Cur) EXCEPT !.sessionId = 0, !.active = NoFile])
  /\ step' = Step("stop-watching", NoFile, sendToRenderer(Cur, "Stopped"))
  /\ UNCHANGED <<fileStates, changeCycleCounter, disk, exists, nextSid,
                 appends, truncates, starts, lineLog, cut, protoVars>>

\* ------------------------------------------------------------------ timers
\* 2 s pass.  A timer fires when it is due, so time does not pass it by.
Tick ==
  /\ timers # {}
  /\ \A t \in timers : t.left > 0
  /\ timers' = {[t EXCEPT !.left = @ - 1] : t \in timers}
  /\ hist' = [hist EXCEPT !.age = Capped(@ + 1)]
  /\ UNCHANGED <<fileWatcher, fileStates, changeCycleCounter, sessionStarted, sessionId,
                 currentCwd, activeConversationFilePath, pendingAssistantResponses,
                 startInFlight, endInFlight, protoVars, envVars, lineLog, cut, step>>

\* no pending response holds the timer: its entry has been removed
Orphan(t) ==
  \A m \in DOMAIN pendingAssistantResponses : pendingAssistantResponses[m].timer # t.h

\* the setTimeout callback: finalizeAssistant(messageId, 'timeout')
TimerFire(t) ==
  /\ t \in timers
  /\ t.left = 0
  /\ LET s == finalizeAssistant([Cur EXCEPT !.timers = @ \ {t}], t.messageId)
     IN /\ Commit(s)
        /\ step' = [Step("timer", NoFile, s) EXCEPT !.orphan = Orphan(t)]
  /\ UNCHANGED <<fileWatcher, fileStates, changeCycleCounter, envVars, lineLog, cut,
                 protoVars>>

\* ------------------------------------------------------------ session API
\* StartResponse whose failure leaves the session flag set
StartResponse_KeepsFlag(ok) ==
  /\ startInFlight > 0
  /\ \E i \in DOMAIN hist.flying :
       LET s0 == [Cur EXCEPT !.startInFlight = @ - 1,
                             !.hist.flying = RemoveAt(@, i)]
           s == IF ok THEN [s0 EXCEPT !.sessionId = nextSid]
                ELSE sendToRenderer(s0, "start-error")
       IN /\ Commit(s)
          /\ step' = [Step("start-response", NoFile, s) EXCEPT !.late = ~hist.flying[i]]
  /\ nextSid' = IF ok THEN nextSid + 1 ELSE nextSid
  /\ UNCHANGED <<fileWatcher, fileStates, changeCycleCounter, disk, exists, polled,
                 addPending, changePending, appends, truncates, starts, lineLog, cut,
                 protoVars>>

\* sendStartConvo after its await: the response sets sessionId, a failure
\* (network error, timeout, non-2xx) clears the session flag.
StartResponse(ok) ==
  /\ startInFlight > 0
  /\ \E i \in DOMAIN hist.flying :
       LET s0 == [Cur EXCEPT !.startInFlight = @ - 1,
                             !.hist.flying = RemoveAt(@, i)]
           s == IF ok THEN [s0 EXCEPT !.sessionId = nextSid]
                ELSE sendToRenderer(ClearSessionFlag(s0), "start-error")
       IN /\ Commit(s)
          /\ step' = [Step("start-response", NoFile, s) EXCEPT !.late = ~hist.flying[i]]
  /\ nextSid' = IF ok THEN nextSid + 1 ELSE nextSid
  /\ UNCHANGED <<fileWatcher, fileStates, changeCycleCounter, disk, exists, polled,
                 addPending, changePending, appends, truncates, starts, lineLog, cut,
                 protoVars>>

\* ---------------------------------------------------------- the log writer
RECURSIVE Unlines(_)
Unlines(lines) ==
  IF lines = <<>> THEN <<>> ELSE Head(lines) \o <<NL>> \o Unlines(Tail(lines))

\* a session is active on another file than f
PinnedElsewhere(f) ==
  sessionStarted /\ activeConversationFilePath \notin {NoFile, f}

\* chokidar notices the change of a file it polls
Notify(f) == IF fileWatcher /\ f \in polled THEN changePending \cup {f} ELSE changePending

Watched(f) == fileWatcher /\ f \in DOMAIN fileStates

\* a log file is created, empty
CreateFile(f) ==
  /\ f \notin exists
  /\ exists' = exists \cup {f}
  /\ addPending' = IF fileWatcher THEN addPending \cup {f} ELSE addPending
  /\ UNCHANGED <<progVars, disk, polled, changePending, nextSid, appends, truncates,
                 starts, lineLog, cut, hist, step, protoVars>>

\* one line is appended to a log file (what is written while no watcher
\* runs is content the next watcher finds, as in Init)
AppendLine(f, body) ==
  /\ fileWatcher
  /\ f \in exists
  /\ appends < MaxAppends
  /\ appends' = appends + 1
  /\ disk' = [disk EXCEPT ![f] = @ \o body \o <<NL>>]
  /\ lineLog' = [lineLog EXCEPT ![f] =
       Append(@, LineTag(IF Watched(f) THEN "new" ELSE "unseen", PinnedElsewhere(f)))]
  /\ changePending' = Notify(f)
  /\ UNCHANGED <<progVars, exists, polled, addPending, nextSid, truncates, starts,
                 cut, hist, step, protoVars>>

\* a log file is cut back to its first k lines (k = 0: emptied, as the
\* first half of a rotation)
Truncate(f, k) ==
  /\ fileWatcher
  /\ f \in exists
  /\ truncates < MaxTruncates
  /\ k < Len(lineLog[f])
  /\ truncates' = truncates + 1
  /\ disk' = [disk EXCEPT ![f] = Unlines(SubSeq(getNormalizedLines(@), 1, k))]
  /\ lineLog' = [lineLog EXCEPT ![f] = SubSeq(@, 1, k)]
  /\ cut' = cut \cup {f}
  /\ changePending' = Notify(f)
  /\ UNCHANGED <<progVars, exists, polled, addPending, nextSid, appends, starts,
                 hist, step, protoVars>>

\* ------------------------------------------------------------- auth token
NoToken == "null"      \* authToken = null
Tokens == {"jwt"}

\* everything but the reporting and protocol state
watchVars == <<fileWatcher, fileStates, changeCycleCounter, sessionStarted, sessionId,
               currentCwd, activeConversationFilePath, pendingAssistantResponses,
               timers, startInFlight, envVars, lineLog, cut, hist, step>>

\* ipcMain.handle('set-auth-token')
SetAuthToken(token) ==
  /\ authToken # token
  /\ authToken' = token
  /\ UNCHANGED <<watchVars, endInFlight, conns, children, frames, pstep>>

\* ipcMain.handle('clear-auth-token')
ClearAuthToken ==
  /\ authToken # NoToken
  /\ authToken' = NoToken
  /\ UNCHANGED <<watchVars, endInFlight, conns, children, frames, pstep>>

\* ------------------------------------------------------ execution protocol
\* A frame of the server, by the fields the 'message' handler reads.
\* parses says whether JSON.parse takes the frame.
ServerFrame(type, error, command) ==
  [message_type |-> type, error |-> error, command |-> command, parses |-> TRUE]

AuthSuccess         == ServerFrame("auth_success", FALSE, "")
ErrorPayload        == ServerFrame("", TRUE, "")
ServerFinished      == ServerFrame("session_finished", FALSE, "")
ExecuteCommand(cmd) == ServerFrame("execute_command", FALSE, cmd)

\* a frame that is not JSON, and a frame of a type the handler does not know
NotAFrame           == [ServerFrame("", FALSE, "") EXCEPT !.parses = FALSE]
UnknownType         == ServerFrame("progress", FALSE, "")

Commands == {"", "git status"}
ServerFrames ==
  {AuthSuccess, ErrorPayload, ServerFinished, NotAFrame, UnknownType}
    \cup {ExecuteCommand(c) : c \in Commands}

\* A frame of the client.
ClientFrame(type, token, sid, output) ==
  [message_type |-> type, token |-> token, session_id |-> sid, output |-> output]

Authenticate(token)     == ClientFrame("authenticate", token, 0, "")
SessionFinished(sid)    == ClientFrame("session_finished", "", sid, "")
CommandExecuted(output) == ClientFrame("command_executed", "", 0, output)

SpawnErrorOutput == "Command execution error"
CommandOutput == "out"  \* what a command that ran wrote to stdout and stderr

\* ws.send(frame): a frame goes out on an open socket only.  Each frame
\* sent is kept with whether auth_success had been received before it.
wsSend(ws, frame) ==
  IF ws.readyState = "open"
  THEN [ws EXCEPT !.sent = Append(@, [frame |-> frame, authed |-> ws.authed])]
  ELSE ws

\* ws.close()
wsClose(ws) ==
  IF ws.readyState \in {"connecting", "open"}
  THEN [ws EXCEPT !.readyState = "closing"] ELSE ws

\* startGitOperations: new WebSocket(wsUrl).  token is history: the token
\* set when the socket was made.
startGitOperations(cs, sid, cwd) ==
  Append(cs, [sessionId |-> sid, cwd |-> cwd, readyState |-> "connecting",
              authed |-> FALSE, sent |-> <<>>, token |-> authToken])

\* What the reporting or protocol handler that ran last did.
PStep(kind, c) ==
  [kind |-> kind, conn |-> c, status |-> 0, opened |-> FALSE, frame |-> AuthSuccess]

\* The answers to POST /session/end: 200, another 2xx, and a failure
\* (non-2xx, network error or timeout), for which axios throws.
EndStatuses == {200, 204, 500}

\* sendEndConvo after its await: the answers that start the git operations
EndOpens(status) == status = 200

\* sendEndConvo after its await, with at most max answers of 200 over a run
EndResponseWithin(i, status, max) ==
  /\ i \in DOMAIN endInFlight
  /\ status = 200 => Len(conns) < max
  /\ endInFlight' = RemoveAt(endInFlight, i)
  /\ conns' = IF EndOpens(status)
              THEN startGitOperations(conns, endInFlight[i].sessionId, endInFlight[i].cwd)
              ELSE conns
  /\ pstep' = [PStep("end-response", IF EndOpens(status) THEN Len(conns') ELSE 0)
                 EXCEPT !.status = status, !.opened = EndOpens(status)]
  /\ UNCHANGED <<watchVars, authToken, children, frames>>

EndResponse(i, status) == EndResponseWithin(i, status, MaxConns)

SetConn(c, ws) == [conns EXCEPT ![c] = ws]

\* the 'open' handler that sends session_finished at once
OnOpenHandler_FinishFirst(ws, token) ==
  IF token = NoToken THEN wsClose(ws) ELSE wsSend(ws, SessionFinished(ws.sessionId))

\* the body of ws.on('open')
OnOpenHandler(ws, token) ==
  IF token = NoToken THEN wsClose(ws) ELSE wsSend(ws, Authenticate(token))

\* ws.on('open')
OnOpen(c) ==
  /\ c \in DOMAIN conns
  /\ conns[c].readyState = "connecting"
  /\ conns' = SetConn(c, OnOpenHandler([conns[c] EXCEPT !.readyState = "open"], authToken))
  /\ pstep' = PStep("open", c)
  /\ UNCHANGED <<watchVars, endInFlight, authToken, children, frames>>

\* the 'message' handler that answers an empty command with the error text
OnMessageHandler_EmptyAsError(ws, m) ==
  IF ~m.parses THEN [ws |-> ws, spawn |-> FALSE]
  ELSE IF m.message_type = "auth_success"
  THEN [ws |-> wsSend([ws EXCEPT !.authed = TRUE], SessionFinished(ws.sessionId)),
        spawn |-> FALSE]
  ELSE IF m.error THEN [ws |-> wsClose(ws), spawn |-> FALSE]
  ELSE IF m.message_type = "session_finished" THEN [ws |-> wsClose(ws), spawn |-> FALSE]
  ELSE IF m.message_type = "execute_command"
  THEN IF m.command = ""
       THEN [ws |-> wsSend(ws, CommandExecuted(SpawnErrorOutput)), spawn |-> FALSE]
       ELSE [ws |-> ws, spawn |-> TRUE]
  ELSE [ws |-> ws, spawn |-> FALSE]

\* the 'message' handler that keeps the socket open on session_finished
OnMessageHandler_NoClose(ws, m) ==
  IF ~m.parses THEN [ws |-> ws, spawn |-> FALSE]
  ELSE IF m.message_type = "auth_success"
  THEN [ws |-> wsSend([ws EXCEPT !.authed = TRUE], SessionFinished(ws.sessionId)),
        spawn |-> FALSE]
  ELSE IF m.error THEN [ws |-> wsClose(ws), spawn |-> FALSE]
  ELSE IF m.message_type = "session_finished" THEN [ws |-> ws, spawn |-> FALSE]
  ELSE IF m.message_type = "execute_command"
  THEN IF m.command = ""
       THEN [ws |-> wsSend(ws, CommandExecuted("")), spawn |-> FALSE]
       ELSE [ws |-> ws, spawn |-> TRUE]
  ELSE [ws |-> ws, spawn |-> FALSE]

\* the body of ws.on('message'): the socket after it, and whether a command
\* was spawned.  authed is history: auth_success was received.
OnMessageHandler(ws, m) ==
  IF ~m.parses THEN [ws |-> ws, spawn |-> FALSE]
  ELSE IF m.message_type = "auth_success"
  THEN [ws |-> wsSend([ws EXCEPT !.authed = TRUE], SessionFinished(ws.sessionId)),
        spawn |-> FALSE]
  ELSE IF m.error THEN [ws |-> wsClose(ws), spawn |-> FALSE]
  ELSE IF m.message_type = "session_finished" THEN [ws |-> wsClose(ws), spawn |-> FALSE]
  ELSE IF m.message_type = "execute_command"
  THEN IF m.command = ""
       THEN [ws |-> wsSend(ws, CommandExecuted("")), spawn |-> FALSE]
       ELSE [ws |-> ws, spawn |-> TRUE]
  ELSE [ws |-> ws, spawn |-> FALSE]

\* A spawned command: the socket and the command, whether spawn worked
\* ("running") or not ("failed"), and as history whether auth_success had been
\* received when it was spawned and the command_executed frames sent for it.
Child(c, cmd, state) ==
  [conn |-> c, command |-> cmd, state |-> state, authed |-> conns[c].authed,
   replies |-> 0]

\* ws.on('message'): a frame of the server arrives, also on a socket the
\* client has begun to close.  spawns says whether spawn works.
OnMessage(c, m, spawns) ==
  /\ c \in DOMAIN conns
  /\ conns[c].readyState \in {"open", "closing"}
  /\ frames < MaxFrames
  /\ frames' = frames + 1
  /\ LET r == OnMessageHandler(conns[c], m)
     IN /\ conns' = SetConn(c, r.ws)
        /\ children' = IF r.spawn
                       THEN Append(children,
                              Child(c, m.command, IF spawns THEN "running" ELSE "failed"))
                       ELSE children
  /\ pstep' = [PStep("message", c) EXCEPT !.frame = m]
  /\ UNCHANGED <<watchVars, endInFlight, authToken>>

Transmits(k) == conns[children[k].conn].readyState = "open"

\* child.on('error'): spawn failed
ChildError(k) ==
  /\ k \in DOMAIN children
  /\ children[k].state = "failed"
  /\ conns' = SetConn(children[k].conn,
                      wsSend(conns[children[k].conn], CommandExecuted(SpawnErrorOutput)))
  /\ children' = [children EXCEPT ![k].state = "errored",
                                  ![k].replies = IF Transmits(k) THEN @ + 1 ELSE @]
  /\ pstep' = PStep("child-error", children[k].conn)
  /\ UNCHANGED <<watchVars, endInFlight, authToken, frames>>

\* child.on('close'): the stdio streams of the child have closed, after it
\* exited or after spawn failed
ChildClose(k) ==
  /\ k \in DOMAIN children
  /\ children[k].state \in {"running", "errored"}
  /\ conns' = SetConn(children[k].conn,
                      wsSend(conns[children[k].conn],
                             CommandExecuted(IF children[k].state = "running"
                                             THEN CommandOutput ELSE "")))
  /\ children' = [children EXCEPT ![k].state = "closed",
                                  ![k].replies = IF Transmits(k) THEN @ + 1 ELSE @]
  /\ pstep' = PStep("child-close", children[k].conn)
  /\ UNCHANGED <<watchVars, endInFlight, authToken, frames>>

\* ws.on('close'): the server has closed the socket, or answered the
\* client's close
OnClose(c) ==
  /\ c \in DOMAIN conns
  /\ conns[c].readyState \in {"open", "closing"}
  /\ conns' = SetConn(c, [conns[c] EXCEPT !.readyState = "closed"])
  /\ pstep' = PStep("close", c)
  /\ UNCHANGED <<watchVars, endInFlight, authToken, children, frames>>

\* ws.on('error'): the connection fails; ws closes the socket when it
\* reports an error
TransportError(c) ==
  /\ c \in DOMAIN conns
  /\ conns[c].readyState \in {"connecting", "open", "closing"}
  /\ conns' = SetConn(c, [conns[c] EXCEPT !.readyState = "closed"])
  /\ pstep' = PStep("error", c)
  /\ UNCHANGED <<watchVars, endInFlight, authToken, children, frames>>


\* a log file is deleted and created anew, empty, and chokidar notices the
\* one and then the other: the file leaves its watch list until the add
\* notification is delivered
ReplaceFile(f) ==
  /\ fileWatcher
  /\ f \in exists
  /\ truncates < MaxTruncates
  /\ Len(lineLog[f]) > 0
  /\ truncates' = truncates + 1
  /\ disk' = [disk EXCEPT ![f] = <<>>]
  /\ lineLog' = [lineLog EXCEPT ![f] = <<>>]
  /\ cut' = cut \cup {f}
  /\ polled' = polled \ {f}
  /\ changePending' = changePending \ {f}
  /\ addPending' = addPending \cup {f}
  /\ UNCHANGED <<progVars, exists, nextSid, appends, starts, hist, step, protoVars>>

\* ----------------------------------------------------------- specifications
\* The state after main.js is loaded, over a log folder in which some of the
\* log files exist, each holding one earlier record.
Init ==
  /\ exists \in SUBSET Files
  /\ disk = [f \in Files |-> IF f \in exists THEN <<UserP, NL>> ELSE <<>>]
  /\ lineLog = [f \in Files |->
                  [i \in 1..Len(getNormalizedLines(disk[f])) |-> LineTag("pre", FALSE)]]
  /\ cut = {}
  /\ fileWatcher = FALSE
  /\ fileStates = <<>>
  /\ polled = {}
  /\ addPending = {}
  /\ changePending = {}
  /\ changeCycleCounter = 0
  /\ sessionStarted = FALSE
  /\ sessionId = 0
  /\ currentCwd = ""
  /\ activeConversationFilePath = NoFile
  /\ pendingAssistantResponses = <<>>
  /\ timers = {}
  /\ startInFlight = 0
  /\ nextSid = 1
  /\ appends = 0
  /\ truncates = 0
  /\ starts = 0
  /\ hist = HistInit
  /\ endInFlight = <<>>
  /\ authToken = NoToken
  /\ conns = <<>>
  /\ children = <<>>
  /\ frames = 0
  /\ pstep = PStep("init", 0)
  /\ step = [kind |-> "init", file |-> NoFile, total |-> 0, batch |-> 0,
             shrunk |-> FALSE, idleBefore |-> TRUE, calls |-> <<>>, logs |-> {},
             order |-> <<>>, discovered |-> {}, orphan |-> FALSE, late |-> FALSE]

\* Two log files, sessions with one-chunk and immediate replies.
Next ==
  \/ StartWatching
  \/ StopWatching
  \/ \E f \in Files : OnChange(f)
  \/ \E f \in Files : OnAdd(f)
  \/ Tick
  \/ \E t \in timers : TimerFire(t)
  \/ \E ok \in BOOLEAN : StartResponse(ok)
  \/ \E f \in Files : CreateFile(f)
  \/ \E f \in Files, body \in Bodies : AppendLine(f, body)

Spec == Init /\ [][Next]_vars

\* Two log files that are appended to, truncated and created while watched.
NextTail ==
  \/ StartWatching
  \/ \E f \in Files : OnChange(f)
  \/ \E f \in Files : OnAdd(f)
  \/ \E ok \in BOOLEAN : StartResponse(ok)
  \/ \E f \in Files : CreateFile(f)
  \/ \E f \in Files, body \in TailBodies : AppendLine(f, body)
  \/ \E f \in Files, k \in 0..MaxAppends : Truncate(f, k)

SpecTail == Init /\ [][NextTail]_vars

\* One log file, whose records arrive one or several to a change event.
NextBatch ==
  \/ StartWatching
  \/ StopWatching
  \/ OnChange("a.jsonl")
  \/ \E ok \in BOOLEAN : StartResponse(ok)
  \/ \E body \in BatchBodies : AppendLine("a.jsonl", body)

SpecBatch == Init /\ [][NextBatch]_vars

\* One log file, with assistant replies that come in chunks.
NextDebounce ==
  \/ StartWatching
  \/ OnChange("a.jsonl")
  \/ Tick
  \/ \E t \in timers : TimerFire(t)
  \/ \E ok \in BOOLEAN : StartResponse(ok)
  \/ \E body \in DebounceBodies : AppendLine("a.jsonl", body)

SpecDebounce == Init /\ [][NextDebounce]_vars

\* One log file with one-record replies, the end reports and the sockets
\* they open.  The log writer is silent once an end report has been made.
ProtoBodies == {<<UserP>>, <<Done>>}

NoEndYet == endInFlight = <<>> /\ conns = <<>> /\ pstep.kind = "init"

NextProto ==
  \/ StartWatching
  \/ OnChange("a.jsonl")
  \/ \E body \in ProtoBodies : NoEndYet /\ AppendLine("a.jsonl", body)
  \/ \E ok \in BOOLEAN : StartResponse(ok)
  \/ \E token \in Tokens : SetAuthToken(token)
  \/ ClearAuthToken
  \/ \E i \in DOMAIN endInFlight, status \in EndStatuses : EndResponse(i, status)
  \/ \E c \in DOMAIN conns : OnOpen(c)
  \/ \E c \in DOMAIN conns, m \in ServerFrames, spawns \in BOOLEAN : OnMessage(c, m, spawns)
  \/ \E k \in DOMAIN children : ChildError(k)
  \/ \E k \in DOMAIN children : ChildClose(k)
  \/ \E c \in DOMAIN conns : OnClose(c)
  \/ \E c \in DOMAIN conns : TransportError(c)

SpecProto == Init /\ [][NextProto]_vars

\* One log file with replies that are debounced or immediate, and the end
\* reports.
ReportBodies == {<<UserP>>, <<Hello>>, <<Done>>}

NextReport ==
  \/ StartWatching
  \/ OnChange("a.jsonl")
  \/ \E body \in ReportBodies : AppendLine("a.jsonl", body)
  \/ Tick
  \/ \E t \in timers : TimerFire(t)
  \/ \E ok \in BOOLEAN : StartResponse(ok)
  \/ \E i \in DOMAIN endInFlight, status \in EndStatuses : EndResponse(i, status)

SpecReport == Init /\ [][NextReport]_vars

\* Two log files that are created and appended to while watched, with the
\* change and add notifications delivered in the end.
ScanBodies == {<<NotJson>>}

NextScan ==
  \/ StartWatching
  \/ \E f \in Files : OnChange(f)
  \/ \E f \in Files : OnAdd(f)
  \/ \E f \in Files : CreateFile(f)
  \/ \E f \in Files, body \in ScanBodies : AppendLine(f, body)

SpecScan ==
  /\ Init /\ [][NextScan]_vars
  /\ \A f \in Files : WF_vars(OnChange(f)) /\ WF_vars(OnAdd(f))

\* Two log files that are created, appended to and replaced while watched.
NextRegistry ==
  \/ StartWatching
  \/ \E f \in Files : OnChange(f)
  \/ \E f \in Files : OnAdd(f)
  \/ \E f \in Files : CreateFile(f)
  \/ \E f \in Files, body \in ScanBodies : AppendLine(f, body)
  \/ \E f \in Files : ReplaceFile(f)

SpecRegistry == Init /\ [][NextRegistry]_vars

\* One log file with one-record replies, and the sockets of two end reports.
ConnBodies == {<<UserP>>, <<Done>>}
ConnFrames == {AuthSuccess, ServerFinished}

NextConns ==
  \/ StartWatching
  \/ OnChange("a.jsonl")
  \/ \E body \in ConnBodies : AppendLine("a.jsonl", body)
  \/ \E ok \in BOOLEAN : StartResponse(ok)
  \/ \E token \in Tokens : SetAuthToken(token)
  \/ \E i \in DOMAIN endInFlight, status \in EndStatuses :
       EndResponseWithin(i, status, MaxSockets)
  \/ \E c \in DOMAIN conns : OnOpen(c)
  \/ \E c \in DOMAIN conns, m \in ConnFrames : OnMessage(c, m, TRUE)
  \/ \E c \in DOMAIN conns : OnClose(c)

SpecConns == Init /\ [][NextConns]_vars

\* One log file with replies that carry a message id, with and without
\* text; requests are answered, time passes and timers that are due fire.
LiveBodies == {<<UserP>>, <<Hello>>, <<ToolUse>>}

NextLive ==
  \/ StartWatching
  \/ OnChange("a.jsonl")
  \/ Tick
  \/ \E t \in timers : TimerFire(t)
  \/ \E ok \in BOOLEAN : StartResponse(ok)
  \/ \E body \in LiveBodies : AppendLine("a.jsonl", body)

SpecLive ==
  /\ Init /\ [][NextLive]_vars
  /\ WF_vars(Tick)
  /\ WF_vars(\E t \in timers : TimerFire(t))
  /\ WF_vars(\E ok \in BOOLEAN : StartResponse(ok))

\* One log file, and watching that is started a second time.
RestartBodies == {<<UserP>>, <<Hello>>}

NextRestart ==
  \/ StartWatchingWithin(MaxWatches)
  \/ StopWatching
  \/ OnChange("a.jsonl")
  \/ \E ok \in BOOLEAN : StartResponse(ok)
  \/ \E body \in RestartBodies : AppendLine("a.jsonl", body)

SpecRestart == Init /\ [][NextRestart]_vars

\* ------------------------------------------------------------------ claims
Lines(f) == getNormalizedLines(disk[f])

Calls(op) == {step.calls[i] : i \in {j \in DOMAIN step.calls : step.calls[j].op = op}}

\* C1: at most one session is active at any time: between two calls of
\* SessionReporter.start the session flag has been cleared, so a user record
\* that arrives while a session is active starts no second one.
C1_OneSessionAtATime == hist.open <= 1

\* A user record was processed on the pinned file while the session was
\* active, and the session is still the only one.
C1_Witness == sessionStarted /\ hist.open = 1 /\ hist.refused

\* C2 (as claimed): two chunks with the same message id that arrive one tick
\* (2 s) apart in the active session are reported by one end call that
\* carries their concatenation and is made one debounce window after the
\* second chunk.
C2_Claim ==
  \A c \in Calls("end") :
    (/\ c.by = "timer"
     /\ c.hist.open = 1
     /\ Len(c.hist.chunks) = 2
     /\ c.hist.chunks[1].id = c.hist.chunks[2].id
     /\ c.hist.chunks[2].gap = 1)
    => /\ c.text = c.hist.chunks[1].text \o c.hist.chunks[2].text
       /\ c.hist.age = DebounceTicks

\* C3 (as claimed): the end call of a session carries the cwd declared by
\* the user record that started the session.
C3_Claim ==
  \A c \in Calls("end") : c.hist.open = 1 => c.cwd = c.hist.cwd

C5_Claim ==
  /\ (step.kind = "change" /\ step.batch > 0)
       => fileStates[step.file].processedLineCount = step.total
  /\ \A f \in DOMAIN fileStates \ cut : \A i \in DOMAIN lineLog[f] :
       /\ lineLog[f][i].handed <= 1
       /\ (/\ lineLog[f][i].org = "new"
           /\ i <= fileStates[f].processedLineCount
           /\ Lines(f)[i] # <<>>)
          => lineLog[f][i].handed = 1

\* C6: a read that finds the file shrunk sets processedLineCount to the
\* line count of the file as read, sends the rotation message and passes no
\* line to processLine; and no line present at such a read is ever passed to
\* processLine afterwards.
C6_RotationNeverReplays ==
  /\ (step.kind = "change" /\ step.shrunk)
       => /\ "rotation" \in step.logs
          /\ fileStates[step.file].processedLineCount = step.total
          /\ step.batch = 0
          /\ step.calls = <<>>
  /\ \A f \in Files : \A i \in DOMAIN lineLog[f] : ~lineLog[f][i].replayed

\* A rotation was detected with lines in the file, and a line appended
\* after it has been processed.
C6_Witness ==
  \E f \in Files : \E i, j \in DOMAIN lineLog[f] :
    /\ lineLog[f][i].frozen
    /\ ~lineLog[f][j].frozen /\ lineLog[f][j].handed = 1

\* C7: a change event for a file other than the one the active session is
\* pinned to changes nothing of the session state or the pending responses
\* and makes no SessionReporter call.
C7_OtherFileChangesNothing ==
  [][\A f \in Files :
       (PinnedElsewhere(f) /\ OnChange(f))
       => /\ UNCHANGED <<sessionStarted, sessionId, currentCwd,
                         activeConversationFilePath, pendingAssistantResponses,
                         timers, startInFlight>>
          /\ step'.calls = <<>>]_vars

\* A change of another file was ignored while a session was active with a
\* response pending.
C7_Witness ==
  /\ "ignoring-change" \in step.logs
  /\ sessionStarted
  /\ DOMAIN pendingAssistantResponses # {}

\* C8 (as claimed): a line appended to a file while a session was active on
\* another file is never passed to processLine.
C8_Claim ==
  \A f \in Files : \A i \in DOMAIN lineLog[f] :
    lineLog[f][i].during => lineLog[f][i].handed = 0

ToolResultRecords == {r \in AllRecords : r.json /\ r.role = "user" /\ r.toolUseResult}

\* C9: with no session active, processLine of a user record that carries
\* toolUseResult leaves the session inactive and calls SessionReporter.start
\* for no payload, no file and no batch size.
C9_ToolResultNeverStarts ==
  ~sessionStarted =>
    \A r \in ToolResultRecords : \A f \in Files : \A n \in 1..(MaxAppends + 1) :
      LET s == processLine(Cur, <<r>>, f, n)
      IN ~s.sessionStarted /\ \A i \in DOMAIN s.calls : s.calls[i].op # "start"

\* A tool result was processed before any session was ever started.
C9_Witness ==
  /\ ~sessionStarted /\ hist.cwd = ""
  /\ \E f \in Files : \E i \in DOMAIN lineLog[f] :
       lineLog[f][i].handed = 1 /\ Lines(f)[i] = <<ToolResult>>

\* C10: a change event that delivers more than 2 new lines while no session
\* is active leaves the session inactive and calls SessionReporter.start for
\* none of them.
C10_BigBatchOpensNoSession ==
  (step.kind = "change" /\ step.batch > FakeUserThreshold /\ step.idleBefore)
    => ~sessionStarted /\ Calls("start") = {}

\* Such a batch held a user record that would have started a session.
C10_Witness ==
  /\ step.kind = "change" /\ step.batch > FakeUserThreshold /\ step.idleBefore
  /\ "fake-user" \in step.logs

Sent(c) == conns[c].sent

SentTypes(c) == [i \in DOMAIN Sent(c) |-> Sent(c)[i].frame.message_type]

\* C11: on every socket the first frame the client sends is authenticate,
\* and every session_finished it sends is sent after auth_success was
\* received on that socket.
C11_AuthenticateFirst ==
  \A c \in DOMAIN conns :
    /\ Sent(c) # <<>> => Sent(c)[1].frame.message_type = "authenticate"
    /\ \A i \in DOMAIN Sent(c) :
         Sent(c)[i].frame.message_type = "session_finished" => Sent(c)[i].authed

\* A socket on which authenticate and then session_finished went out.
C11_Witness ==
  \E c \in DOMAIN conns :
    /\ conns[c].authed
    /\ SentTypes(c) = <<"authenticate", "session_finished">>

\* C12 (as claimed): no command is spawned, and no command_executed is
\* sent, for an execute_command received on a socket that has not yet
\* received auth_success.
C12_Claim ==
  /\ \A k \in DOMAIN children : children[k].authed
  /\ \A c \in DOMAIN conns : \A i \in DOMAIN Sent(c) :
       Sent(c)[i].frame.message_type = "command_executed" => Sent(c)[i].authed

\* C13 (as claimed): for an execute_command that spawned a command, at most
\* one command_executed is sent, and exactly one once the command is over
\* and the socket is still open, whether the command ran or failed to spawn.
C13_Claim ==
  \A k \in DOMAIN children :
    /\ children[k].replies <= 1
    /\ (children[k].state = "closed" /\ conns[children[k].conn].readyState = "open")
         => children[k].replies = 1

\* C14: an execute_command with an empty command received on an open socket
\* is answered by one command_executed with output "", and spawns nothing.
C14_EmptyCommandAnswered ==
  [][\A c \in DOMAIN conns : \A sp \in BOOLEAN :
       (conns[c].readyState = "open" /\ OnMessage(c, ExecuteCommand(""), sp))
       => /\ conns'[c].sent = Append(conns[c].sent,
                                     [frame |-> CommandExecuted(""),
                                      authed |-> conns[c].authed])
          /\ children' = children]_vars

\* The last frame received was an empty command and its answer went out.
C14_Witness ==
  /\ pstep.kind = "message" /\ pstep.frame = ExecuteCommand("")
  /\ Sent(pstep.conn) # <<>>
  /\ Sent(pstep.conn)[Len(Sent(pstep.conn))].frame = CommandExecuted("")
  /\ children = <<>>

ClosingFrames == {m \in ServerFrames : m.error \/ m.message_type = "session_finished"}

C16_Claim ==
  \A c \in DOMAIN conns : conns[c].token # NoToken

\* C20 (as claimed): an answer to the end report opens a socket exactly
\* when its status is 2xx.
C20_Claim ==
  pstep.kind = "end-response" =>
    (pstep.opened <=> (pstep.status >= 200 /\ pstep.status < 300))

\* C17 (as claimed): once the watcher is stopped no end report is made: no
\* handler that runs while no watcher is running calls SessionReporter.end.
C17_Claim ==
  ~fileWatcher => Calls("end") = {}

NoIdReplies ==
  {r \in AllRecords : r.json /\ r.role = "assistant" /\ r.id = "" /\ r.text # ""}

HasEnd(calls) == \E i \in DOMAIN calls : calls[i].op = "end"

\* processLine of a reply without message id that makes the end report
\* leaves the session Idle.
ImmediateFinalizeIdles ==
  \A r \in NoIdReplies : \A f \in Files : \A n \in 1..MaxAppends :
    LET s == processLine(Cur, <<r>>, f, n)
    IN HasEnd(s.calls) => ~s.sessionStarted /\ s.active = NoFile

\* C18: the expiry of the timer of a pending response makes the end report
\* and leaves the session Idle (flag cleared, no pinned file) in the same
\* step, and so does an immediate finalize, before the report is answered;
\* the answer, success or failure, changes nothing of the session, makes no
\* further call and is not retried.
C18_IdleWhateverTheReport ==
  /\ []ImmediateFinalizeIdles
  /\ [][/\ \A t \in timers :
            (TimerFire(t) /\ t.messageId \in DOMAIN pendingAssistantResponses)
            => /\ HasEnd(step'.calls)
               /\ ~sessionStarted' /\ activeConversationFilePath' = NoFile
       /\ \A i \in DOMAIN endInFlight : \A status \in EndStatuses :
            EndResponse(i, status)
            => /\ UNCHANGED <<sessionStarted, sessionId, currentCwd,
                              activeConversationFilePath, pendingAssistantResponses,
                              timers, startInFlight, step>>
               /\ Len(endInFlight') = Len(endInFlight) - 1]_vars

\* The end report made by a debounce expiry has failed, and the session is
\* Idle.
C18_Witness ==
  /\ step.kind = "timer" /\ HasEnd(step.calls)
  /\ pstep.kind = "end-response" /\ pstep.status = 500
  /\ endInFlight = <<>>
  /\ ~sessionStarted /\ activeConversationFilePath = NoFile

QualifyingUserRecords ==
  {r \in AllRecords : r.json /\ r.role = "user" /\ ~r.toolUseResult}

\* Every qualifying user record, from any file, in a batch of at most 2
\* lines, starts a session.
NextUserRecordStarts ==
  \A r \in QualifyingUserRecords : \A f \in Files : \A n \in 1..FakeUserThreshold :
    LET s == processLine(Cur, <<r>>, f, n)
    IN /\ s.sessionStarted /\ s.active = f
       /\ \E i \in DOMAIN s.calls : s.calls[i].op = "start"

\* C19: a failed start report clears the session flag and leaves the
\* watcher and its registry as they are, and then the next qualifying user
\* record starts a new session.
C19_StartFailureBackToIdle ==
  [][StartResponse(FALSE)
     => /\ ~sessionStarted'
        /\ UNCHANGED <<fileWatcher, fileStates, polled, changePending>>
        /\ NextUserRecordStarts']_vars

\* After a failed start report a second user record, alone in its batch,
\* has started a new session.
C19_Witness ==
  /\ fileWatcher /\ sessionStarted
  /\ step.kind = "change" /\ step.batch = 1 /\ step.total = 3
  /\ Calls("start") # {}
  /\ Lines("a.jsonl") = << <<UserP>>, <<UserP>>, <<UserP>> >>
  /\ nextSid = 1 /\ startInFlight = 1

Unchanged(s) ==
  /\ s.sessionStarted = sessionStarted /\ s.sessionId = sessionId
  /\ s.currentCwd = currentCwd /\ s.active = activeConversationFilePath
  /\ s.pending = pendingAssistantResponses /\ s.timers = timers
  /\ s.startInFlight = startInFlight /\ s.endInFlight = endInFlight

\* C21: processLine of a line that is not JSON changes nothing of the
\* session, makes no SessionReporter call and logs the error; and a batch
\* is processed to its end whatever it holds: processedLineCount is then the
\* line count of the file, and every non-blank line appended to the watched
\* file and counted as processed was passed to processLine once, the lines
\* of a batch in file order.
C21_MalformedLineDropped ==
  /\ \A f \in Files : \A n \in 1..(MaxAppends + 1) :
       LET s == processLine(Cur, <<NotJson>>, f, n)
       IN Unchanged(s) /\ s.calls = <<>> /\ s.logs = {"line-error"}
  /\ (step.kind = "change" /\ step.batch > 0)
       => /\ fileStates[step.file].processedLineCount = step.total
          /\ \A i, j \in DOMAIN step.order : i < j => step.order[i] < step.order[j]
          /\ \A i \in (step.total - step.batch + 1)..step.total :
                Lines(step.file)[i] # <<>>
                  => \E k \in DOMAIN step.order : step.order[k] = i
  /\ \A f \in DOMAIN fileStates : \A i \in DOMAIN lineLog[f] :
       (/\ lineLog[f][i].org = "new"
        /\ i <= fileStates[f].processedLineCount
        /\ Lines(f)[i] # <<>>)
       => lineLog[f][i].handed = 1

\* A batch with a malformed line before a user record was processed, and
\* the user record started the session.
C21_Witness ==
  /\ step.kind = "change" /\ step.batch = 2 /\ step.total = 3
  /\ Lines("a.jsonl") = << <<UserP>>, <<NotJson>>, <<UserP>> >>
  /\ step.order = <<2, 3>>
  /\ Calls("start") # {}
  /\ sessionStarted

\* C22 (as claimed): start-watching succeeds whatever the log files of the
\* folder hold, an empty file included.
C22_Claim ==
  step.kind = "start-watching" => "Started" \in step.logs

\* C23 (as claimed): a timer whose pending entry was cancelled by a record
\* with the same message id causes no end report and no session reset when
\* it fires.
C23_Claim ==
  (step.kind = "timer" /\ step.orphan)
    => /\ step.calls = <<>>
       /\ ~step.idleBefore => sessionStarted

\* C24 (as claimed): at most one timer is armed per message id.
C24_Claim ==
  \A t1, t2 \in timers : t1.messageId = t2.messageId => t1 = t2

\* C25 (as claimed): after the end report of a session has been made the
\* session is not Idle as long as an end report is in flight.
C25_Claim ==
  \A c \in Calls("end") :
    (c.hist.open = 1 /\ endInFlight # <<>>) => sessionStarted

\* C26: with a session active, processLine of an assistant record with text
\* and no message id from the pinned file makes one SessionReporter call, the
\* end report with that text, leaves the pending responses and the timers as
\* they are, and leaves the session Idle.
C26_NoIdReplyFinalizesAtOnce ==
  (sessionStarted /\ activeConversationFilePath # NoFile) =>
    \A r \in NoIdReplies : \A n \in 1..(MaxAppends + 1) :
      LET s == processLine(Cur, <<r>>, activeConversationFilePath, n)
      IN /\ Len(s.calls) = 1
         /\ s.calls[1].op = "end" /\ s.calls[1].text = r.text
         /\ s.pending = pendingAssistantResponses
         /\ s.timers = timers
         /\ ~s.sessionStarted /\ s.active = NoFile

\* A reply without message id has ended an active session in the change
\* event that read it, while a debounced reply was pending.
C26_Witness ==
  /\ step.kind = "change" /\ ~step.idleBefore
  /\ \E c \in Calls("end") : c.by = "line" /\ c.hist.open = 1 /\ c.text = "done"
  /\ ~sessionStarted /\ activeConversationFilePath = NoFile
  /\ DOMAIN pendingAssistantResponses # {}

\* C27: the lines a change event passes to processLine are passed in file
\* order, and no line is passed to processLine after a later line of its
\* file was.
C27_FileOrder ==
  /\ \A i, j \in DOMAIN step.order : i < j => step.order[i] < step.order[j]
  /\ \A f \in Files : \A i \in DOMAIN lineLog[f] : ~lineLog[f][i].late

\* A change event has passed two lines to processLine, after an earlier one
\* had passed a line of the same file.
C27_Witness ==
  /\ step.kind = "change" /\ Len(step.order) = 2
  /\ \E i \in DOMAIN lineLog[step.file] :
       /\ i < step.order[1]
       /\ lineLog[step.file][i].org = "new" /\ lineLog[step.file][i].handed = 1

\* C28 (as claimed): the processedLineCount of a registered file decreases
\* only in a change event of that file that sends the rotation message.
C28_Claim ==
  [][\A f \in DOMAIN fileStates :
       (/\ f \in DOMAIN fileStates'
        /\ fileStates'[f].processedLineCount < fileStates[f].processedLineCount)
       => "rotation" \in step'.logs /\ step'.file = f]_vars

\* C29 (as claimed): the entry of a file that is in the registry is left as
\* it is by an add notification for the file and by a change event of
\* another file, with the scan it may run.
C29_Claim ==
  [][\A f \in DOMAIN fileStates :
       (OnAdd(f) \/ \E g \in Files \ {f} : OnChange(g))
       => fileStates'[f] = fileStates[f]]_vars

C31_Claim ==
  (pstep.kind = "message" /\ pstep.frame \in {NotAFrame, UnknownType})
    => conns[pstep.conn].readyState \in {"closing", "closed"}

\* C32 (as claimed): at most one socket is open at any time.
C32_Claim ==
  Cardinality({c \in DOMAIN conns : conns[c].readyState = "open"}) <= 1

\* C33 (as claimed): an end call made for a session that a start call opened
\* is not made with the empty session id.
C33_Claim ==
  \A c \in Calls("end") : c.hist.open = 1 => c.sid # 0

\* C34 (as claimed): the answer to a start request whose session flag has
\* been cleared since, response or failure, arriving while a later session is
\* on, leaves the session flag set and the session id as it was.
C34_Claim ==
  [][\A ok \in BOOLEAN :
       (StartResponse(ok) /\ step'.late /\ sessionStarted)
         => (sessionStarted' /\ sessionId' = sessionId)]_vars

\* C35 (as claimed): at most one end call is made after a start call until
\* the next start call.
C35_Claim ==
  hist.file # NoFile => hist.ends <= 1

\* C36 (as claimed): when the debounce timer expires of a pending response
\* that was made while a session was on and holds no chunk accepted since
\* the session that is on now was started, the session stays on and its file
\* stays pinned.
C36_Claim ==
  [][\A t \in timers :
       (/\ TimerFire(t)
        /\ sessionStarted
        /\ t.messageId \in DOMAIN pendingAssistantResponses
        /\ pendingAssistantResponses[t.messageId].timer = t.h
        /\ pendingAssistantResponses[t.messageId].inSession
        /\ \A k \in DOMAIN hist.chunks : hist.chunks[k].id # t.messageId)
       => (sessionStarted' /\ activeConversationFilePath' = activeConversationFilePath)]_vars

\* C37 (as claimed): the change handler makes no end call for an assistant
\* record it processes while the session flag is clear, and when it ran with
\* the flag clear from beginning to end it made no pending response.
C37_Claim ==
  /\ \A c \in Calls("end") : c.by = "line" => c.hist.open > 0
  /\ (step.kind = "change" /\ step.idleBefore /\ ~sessionStarted /\ Calls("start") = {})
       => \A m \in DOMAIN pendingAssistantResponses :
            pendingAssistantResponses[m].inSession

\* C38 (as claimed): a session that is on and for which an assistant chunk
\* with text has been accepted is in the end Idle again.
C38_Claim ==
  (sessionStarted /\ hist.chunks # <<>>) ~> ~sessionStarted

C40_Claim ==
  (step.kind = "start-watching" /\ "Started" \in step.logs)
    => /\ ~sessionStarted
       /\ activeConversationFilePath = NoFile
       /\ pendingAssistantResponses = <<>>

====
